---- MODULE Spec2Model ----
(***************************************************************************)
(* Model of DuplicateFileRemoval.py: one process that scans a directory,   *)
(* groups the files by MD5 digest, removes every file of a group but the   *)
(* first, writes a log of the removed paths, mails it when the network is  *)
(* reachable, sleeps, and starts over.                                     *)
(*                                                                         *)
(* The directory is a flat set of path names 1..NumPaths.  A path is       *)
(* absent, a regular file with some byte content, or a symbolic link to a  *)
(* path of lower number (so links may chain and dangle but never loop).    *)
(* os.walk lists regular files and links to non-directories alike, in an   *)
(* order the filesystem chooses.  Errors of the operating system (open,    *)
(* remove, makedirs, urlopen, smtp) are chosen by the environment.         *)
(*                                                                         *)
(* Taken as given: MD5 has no collisions on the contents modelled; the     *)
(* log directory lies outside the scanned directory; the interval is not   *)
(* negative, so time.sleep does not raise; other processes change the      *)
(* directory only between two passes.                                      *)
(***************************************************************************)
EXTENDS Integers, Sequences, FiniteSets, TLC

\* Number of path names in the scanned directory.
NumPaths == 3

\* hash_file's default chunk size.
blocksize == 1024

Paths == 1..NumPaths

\* Byte contents a file can have; the empty file is one of them.
FileContents == {<<>>, <<0>>, <<0, 1>>}

\* The value of log while this run has written no log file.
NoLog == <<0>>

VARIABLES
    tree,             \* the directory: path -> entry
    pc,               \* position of main: stopped, scan, delete, log, connect, mail, sleep
    raisedIn,         \* where main last ended: none, usage, badpath, args, scan, delete, log, connect, mail
    duplicates,       \* find_duplicates' dict, in insertion order: sequence of [hash, files]
    gi, fi,           \* delete_files' position: group index, index in the group's file_list
    deleted_files,    \* delete_files' list
    total_scanned,    \* main's locals
    total_duplicates,
    log,              \* the lines create_log wrote after the header in this run's log file, or NoLog
    connected,        \* the value is_connected returned in this run: "unknown", TRUE, FALSE
    mailCalled,       \* send_mail was called in this run
    mailSent,         \* the SMTP conversation succeeded in this run
    tree0,            \* history: the directory when this run's delete_files was called
    failedRemove,     \* history: the paths (none or one) whose os.remove raised in this run
    failedHash,       \* history: the paths (none or one) whose hash_file raised in this run
    lastClean,        \* history: the last pass returned from delete_files and the tree is unchanged since
    prevClean,        \* history: lastClean as it was when this run started
    prevRemoved       \* history: when prevClean, the number of files that last pass removed

vars == <<tree, pc, raisedIn, duplicates, gi, fi, deleted_files, total_scanned,
          total_duplicates, log, connected, mailCalled, mailSent, tree0,
          failedRemove, failedHash, lastClean, prevClean, prevRemoved>>

----------------------------------------------------------------------------
\* The filesystem.

Absent == [kind |-> "absent", data |-> <<>>, target |-> 0]
File(c) == [kind |-> "file", data |-> c, target |-> 0]
Link(j) == [kind |-> "link", data |-> <<>>, target |-> j]

Entries(p) == {Absent} \cup {File(c) : c \in FileContents} \cup {Link(j) : j \in 1..(p - 1)}

AllEntries == UNION {Entries(p) : p \in Paths}

Trees == {t \in [Paths -> AllEntries] : \A p \in Paths : t[p] \in Entries(p)}

\* The regular file a path leads to, following links: {f}, or {} when the
\* name is absent or the link dangles.
RECURSIVE Resolve(_, _)
Resolve(t, p) ==
    IF t[p].kind = "file" THEN {p}
    ELSE IF t[p].kind = "link" THEN Resolve(t, t[p].target)
    ELSE {}

\* The names os.walk yields as filenames: every entry that is not a directory.
Listed(t) == {p \in Paths : t[p].kind # "absent"}

\* os.remove(path): unlinks the name itself, never the target of a link.
Remove(t, p) == [t EXCEPT ![p] = Absent]

Range(s) == {s[i] : i \in 1..Len(s)}

\* All orders in which a listing can return a set of names.
RECURSIVE Orders(_)
Orders(S) ==
    IF S = {} THEN {<<>>}
    ELSE UNION {{<<p>> \o o : o \in Orders(S \ {p})} : p \in S}

----------------------------------------------------------------------------
\* hash_file.  MD5 is modelled as free of collisions: the state of the hasher
\* is the input fed so far and the digest is an injective code of it.

update(hasher, buf) == hasher \o buf

RECURSIVE hexdigest(_)
hexdigest(hasher) ==
    IF hasher = <<>> THEN 1
    ELSE 257 * hexdigest(SubSeq(hasher, 1, Len(hasher) - 1)) + hasher[Len(hasher)] + 1

\* file.read(size) at offset pos (0-based)
read(data, pos, size) ==
    SubSeq(data, pos + 1, IF pos + size < Len(data) THEN pos + size ELSE Len(data))

RECURSIVE HashLoop(_, _, _, _)
HashLoop(data, pos, hasher, size) ==
    LET buf == read(data, pos, size)
    IN  IF Len(buf) > 0
        THEN HashLoop(data, pos + Len(buf), update(hasher, buf), size)
        ELSE hexdigest(hasher)

\* The bytes open(path).read() would give.
Content(t, path) == t[CHOOSE f \in Resolve(t, path) : TRUE].data

\* open(path) raises when the name does not lead to a regular file or when the
\* environment refuses it (path \in bad); the result is [ok, digest].
hash_file(t, path, bad) ==
    IF Resolve(t, path) = {} \/ path \in bad
    THEN [ok |-> FALSE, digest |-> 0]
    ELSE [ok |-> TRUE, digest |-> HashLoop(Content(t, path), 0, <<>>, blocksize)]

----------------------------------------------------------------------------
\* find_duplicates.  The dict keeps insertion order, so it is a sequence of
\* [hash, files] with pairwise distinct hashes.

HasKey(dups, h) == \E k \in 1..Len(dups) : dups[k].hash = h

\* duplicates[filehash].append(filepath) / duplicates[filehash] = [filepath]
Insert(dups, h, filepath) ==
    IF HasKey(dups, h)
    THEN [k \in 1..Len(dups) |->
            IF dups[k].hash = h
            THEN [dups[k] EXCEPT !.files = Append(@, filepath)]
            ELSE dups[k]]
    ELSE Append(dups, [hash |-> h, files |-> <<filepath>>])

\* The loop over the walk: order is the listing the filesystem gave, bad the
\* names open() is refused on.  A failing hash_file raises out of the loop.
RECURSIVE ScanLoop(_, _, _, _, _)
ScanLoop(t, order, i, dups, bad) ==
    IF i > Len(order)
    THEN [ok |-> TRUE, dups |-> dups, failed |-> {}]
    ELSE LET h == hash_file(t, order[i], bad)
         IN  IF h.ok
             THEN ScanLoop(t, order, i + 1, Insert(dups, h.digest, order[i]), bad)
             ELSE [ok |-> FALSE, dups |-> dups, failed |-> {order[i]}]

find_duplicates(t, order, bad) == ScanLoop(t, order, 1, <<>>, bad)

RECURSIVE SumSizes(_)
SumSizes(dups) ==
    IF dups = <<>> THEN 0 ELSE Len(Head(dups).files) + SumSizes(Tail(dups))

\* Variant: counts the groups instead of the files.
TotalScannedGroups(dups) == Len(dups)

\* sum(len(files) for files in duplicates.values())
TotalScanned(dups) == SumSizes(dups)

----------------------------------------------------------------------------
\* delete_files.

\* if len(file_list) > 1
HasDuplicates(file_list) == Len(file_list) > 1

\* Variant: file_list[0:], the first occurrence is removed too.
VictimsAll(file_list) == file_list

\* Variant: file_list[1:2], only the second occurrence is removed.
VictimsOne(file_list) == SubSeq(file_list, 2, IF Len(file_list) < 2 THEN Len(file_list) ELSE 2)

\* file_list[1:]
Victims(file_list) == SubSeq(file_list, 2, Len(file_list))

\* The next (group, index into Victims) at which the loops call os.remove,
\* from position (g, f); g > Len(dups) when the loops are over.
RECURSIVE NextPos(_, _, _)
NextPos(dups, g, f) ==
    IF g > Len(dups) THEN [g |-> g, f |-> 1]
    ELSE IF HasDuplicates(dups[g].files) /\ f <= Len(Victims(dups[g].files))
         THEN [g |-> g, f |-> f]
         ELSE NextPos(dups, g + 1, 1)

\* Variant: the mail is sent whatever is_connected returned.
MailGateAlways(c) == TRUE

\* if is_connected(): send_mail(...)
MailGate(c) == c = "yes"

----------------------------------------------------------------------------
\* The process.

Fresh ==
    /\ duplicates' = <<>>
    /\ gi' = 1
    /\ fi' = 1
    /\ deleted_files' = <<>>
    /\ total_scanned' = 0
    /\ total_duplicates' = 0
    /\ log' = NoLog
    /\ connected' = "unknown"
    /\ mailCalled' = FALSE
    /\ mailSent' = FALSE
    /\ tree0' = tree
    /\ failedRemove' = {}
    /\ failedHash' = {}

Init ==
    /\ tree \in Trees
    /\ pc = "stopped"
    /\ raisedIn = "none"
    /\ duplicates = <<>>
    /\ gi = 1
    /\ fi = 1
    /\ deleted_files = <<>>
    /\ total_scanned = 0
    /\ total_duplicates = 0
    /\ log = NoLog
    /\ connected = "unknown"
    /\ mailCalled = FALSE
    /\ mailSent = FALSE
    /\ tree0 = tree
    /\ failedRemove = {}
    /\ failedHash = {}
    /\ lastClean = FALSE
    /\ prevClean = FALSE
    /\ prevRemoved = 0

\* An uncaught exception: the traceback ends the process.
Raise(where) ==
    /\ pc' = "stopped"
    /\ raisedIn' = where

\* main up to the loop: a new process with argc = len(sys.argv), intOk whether
\* int(sys.argv[2]) parses, isdir whether the path is an existing directory.
Launch ==
    /\ pc = "stopped"
    /\ \E argc \in {3, 4, 5}, intOk \in BOOLEAN, isdir \in BOOLEAN :
         /\ IF argc # 4 THEN Raise("usage")
            ELSE IF ~intOk THEN Raise("args")
            ELSE IF ~isdir THEN Raise("badpath")
            ELSE pc' = "scan" /\ raisedIn' = "none"
         /\ prevClean' = (argc = 4 /\ intOk /\ isdir /\ lastClean)
         /\ prevRemoved' = IF argc = 4 /\ intOk /\ isdir /\ lastClean
                            THEN Len(deleted_files) ELSE 0
         /\ lastClean' = IF argc = 4 /\ intOk /\ isdir THEN FALSE ELSE lastClean
    /\ Fresh
    /\ UNCHANGED tree

\* duplicates = find_duplicates(directory_path); total_scanned = sum(...)
Scan ==
    /\ pc = "scan"
    /\ \E order \in Orders(Listed(tree)), bad \in {{}} \cup {{p} : p \in Listed(tree)} :
         LET r == find_duplicates(tree, order, bad)
         IN  IF r.ok
             THEN /\ duplicates' = r.dups
                  /\ total_scanned' = TotalScanned(r.dups)
                  /\ pc' = "delete"
                  /\ UNCHANGED <<raisedIn, failedHash>>
             ELSE /\ Raise("scan")
                  /\ failedHash' = r.failed
                  /\ UNCHANGED <<duplicates, total_scanned>>
    /\ tree0' = tree
    /\ gi' = 1
    /\ fi' = 1
    /\ UNCHANGED <<tree, deleted_files, total_duplicates, log, connected, mailCalled,
                   mailSent, failedRemove, lastClean, prevClean, prevRemoved>>

\* One os.remove(file) of delete_files; removed is whether the call succeeds.
DeleteFile ==
    /\ pc = "delete"
    /\ LET pos == NextPos(duplicates, gi, fi)
       IN  /\ pos.g <= Len(duplicates)
           /\ LET file == Victims(duplicates[pos.g].files)[pos.f]
              IN  \E removed \in BOOLEAN :
                    IF removed
                    THEN /\ tree' = Remove(tree, file)
                         /\ deleted_files' = Append(deleted_files, file)
                         /\ gi' = pos.g
                         /\ fi' = pos.f + 1
                         /\ UNCHANGED <<pc, raisedIn, failedRemove>>
                    ELSE /\ Raise("delete")
                         /\ failedRemove' = {file}
                         /\ gi' = pos.g
                         /\ fi' = pos.f
                         /\ UNCHANGED <<tree, deleted_files>>
    /\ UNCHANGED <<duplicates, total_scanned, total_duplicates, log, connected,
                   mailCalled, mailSent, tree0, failedHash, lastClean, prevClean, prevRemoved>>

\* return deleted_files; total_duplicates = len(deleted_files)
DeleteReturn ==
    /\ pc = "delete"
    /\ NextPos(duplicates, gi, fi).g > Len(duplicates)
    /\ total_duplicates' = Len(deleted_files)
    /\ pc' = "log"
    /\ lastClean' = TRUE
    /\ UNCHANGED <<tree, raisedIn, duplicates, gi, fi, deleted_files, total_scanned,
                   log, connected, mailCalled, mailSent, tree0, failedRemove,
                   failedHash, prevClean, prevRemoved>>

\* log_path = create_log(deleted_files, log_dir); written is whether makedirs,
\* open and write all succeed.
CreateLog ==
    /\ pc = "log"
    /\ \E written \in BOOLEAN :
         IF written
         THEN log' = deleted_files /\ pc' = "connect" /\ UNCHANGED raisedIn
         ELSE Raise("log") /\ UNCHANGED log
    /\ UNCHANGED <<tree, duplicates, gi, fi, deleted_files, total_scanned,
                   total_duplicates, connected, mailCalled, mailSent, tree0,
                   failedRemove, failedHash, lastClean, prevClean, prevRemoved>>

\* if is_connected(): urlopen answers ("yes"), raises URLError ("no"), or
\* raises something else, which is_connected does not catch ("raise").
IsConnected ==
    /\ pc = "connect"
    /\ \E r \in {"yes", "no", "raise"} :
         IF r = "raise"
         THEN Raise("connect") /\ UNCHANGED connected
         ELSE /\ connected' = r
              /\ pc' = IF MailGate(r) THEN "mail" ELSE "sleep"
              /\ UNCHANGED raisedIn
    /\ UNCHANGED <<tree, duplicates, gi, fi, deleted_files, total_scanned,
                   total_duplicates, log, mailCalled, mailSent, tree0,
                   failedRemove, failedHash, lastClean, prevClean, prevRemoved>>

\* send_mail: opening the attachment is outside the try ("open_error" raises);
\* an SMTP failure is caught and printed.
SendMail ==
    /\ pc = "mail"
    /\ mailCalled' = TRUE
    /\ \E r \in {"sent", "smtp_error", "open_error"} :
         IF r = "open_error"
         THEN Raise("mail") /\ UNCHANGED mailSent
         ELSE /\ mailSent' = (r = "sent")
              /\ pc' = "sleep"
              /\ UNCHANGED raisedIn
    /\ UNCHANGED <<tree, duplicates, gi, fi, deleted_files, total_scanned,
                   total_duplicates, log, connected, tree0, failedRemove,
                   failedHash, lastClean, prevClean, prevRemoved>>

\* time.sleep returns and the loop starts the next run.
Sleep ==
    /\ pc = "sleep"
    /\ pc' = "scan"
    /\ prevClean' = lastClean
    /\ prevRemoved' = IF lastClean THEN Len(deleted_files) ELSE 0
    /\ lastClean' = FALSE
    /\ Fresh
    /\ UNCHANGED <<tree, raisedIn>>

\* The process is interrupted (Ctrl-C, kill) between two steps of a run.
Interrupt ==
    /\ pc \in {"scan", "delete", "log", "connect", "mail", "sleep"}
    /\ Raise("interrupt")
    /\ UNCHANGED <<tree, duplicates, gi, fi, deleted_files, total_scanned,
                   total_duplicates, log, connected, mailCalled, mailSent, tree0,
                   failedRemove, failedHash, lastClean, prevClean, prevRemoved>>

\* Somebody else creates, rewrites, relinks or removes a name between two
\* passes: while the process sleeps or is not running, seen here as the
\* moment before the next scan starts.
EnvChange ==
    /\ pc = "scan"
    /\ \E p \in Paths :
         \E e \in Entries(p) :
           /\ e # tree[p]
           /\ tree' = [tree EXCEPT ![p] = e]
    /\ tree0' = tree'
    /\ prevClean' = FALSE
    /\ prevRemoved' = 0
    /\ UNCHANGED <<pc, raisedIn, duplicates, gi, fi, deleted_files, total_scanned,
                   total_duplicates, log, connected, mailCalled, mailSent,
                   failedRemove, failedHash, lastClean>>

Next ==
    \/ Launch
    \/ Scan
    \/ DeleteFile
    \/ DeleteReturn
    \/ CreateLog
    \/ IsConnected
    \/ SendMail
    \/ Sleep
    \/ Interrupt
    \/ EnvChange

Spec == Init /\ [][Next]_vars

----------------------------------------------------------------------------
\* Vocabulary of the properties.

\* The names this run's delete_files has unlinked so far.
RemovedPaths == {p \in Paths : tree0[p].kind # "absent" /\ tree[p].kind = "absent"}

\* The paths listed in this run's log file.
LoggedPaths == IF log = NoLog THEN {} ELSE Range(log)

\* Every path delete_files is to remove, given the mapping it was passed.
AllVictims == UNION {Range(Victims(duplicates[g].files)) : g \in 1..Len(duplicates)}

\* The paths os.remove was called on in this run.
Attempted == Range(deleted_files) \cup failedRemove

\* The first member of every group of a mapping.
Survivors(dups) == {dups[g].files[1] : g \in 1..Len(dups)}

\* This run's delete_files has returned and main's locals are still this run's.
PassDone == lastClean /\ raisedIn \in {"none", "log", "connect", "mail", "interrupt"}

\* A name whose content can be read.
Readable(t, p) == Resolve(t, p) # {}

----------------------------------------------------------------------------
\* C1: in every group of the mapping passed to delete_files the first path is
\* never removed (so a path of a group of size 1 never is), and once
\* delete_files has returned every other path of every group is removed.
C1_KeepFirstRemoveRest ==
    \A g \in 1..Len(duplicates) :
      LET file_list == duplicates[g].files
      IN  /\ tree[file_list[1]].kind # "absent"
          /\ tree[file_list[1]] = tree0[file_list[1]]
          /\ PassDone => \A i \in 2..Len(file_list) : tree[file_list[i]].kind = "absent"

C1_Witness ==
    /\ pc = "log"
    /\ \E g \in 1..Len(duplicates) : Len(duplicates[g].files) > 1
    /\ \E g \in 1..Len(duplicates) : Len(duplicates[g].files) = 1

\* C2: a removal that fails does not abort the batch: every other file
\* delete_files was to remove is still attempted.
C2_FailureDoesNotAbortBatch ==
    failedRemove # {} => (raisedIn # "delete" /\ AllVictims \subseteq Attempted)

\* C3: a file whose hashing fails is left out and the scan goes on: the scan
\* returns a mapping that holds every other readable file.
C3_HashFailureDoesNotAbortScan ==
    failedHash # {} =>
      /\ raisedIn # "scan"
      /\ \A p \in Listed(tree0) \ failedHash :
           Readable(tree0, p) => \E g \in 1..Len(duplicates) : p \in Range(duplicates[g].files)

\* C4: no error raised during a run ends the driver loop.
C4_NoErrorEndsLoop ==
    ~(pc = "stopped" /\ raisedIn \in {"scan", "delete", "log", "connect", "mail"})

\* C5: wherever a run can stop (between two removals, after the last one, on
\* an error or an interruption), the paths in the run's log are exactly the
\* files the run has removed.
C5_LogMatchesRemovals ==
    (\/ pc \in {"delete", "log", "connect", "mail", "sleep"}
     \/ pc = "stopped" /\ raisedIn \in {"delete", "log", "connect", "mail", "interrupt"})
    => LoggedPaths = RemovedPaths

\* C6: is_connected is evaluated only once scanning, deletion and the log are
\* done, so the files removed are the victims of the mapping whatever it
\* returns; when it returns false send_mail is not called and the run's log
\* file exists.
C6_ConnectivityGatesOnlyMail ==
    /\ (pc \in {"connect", "mail"} \/ connected # "unknown") =>
         /\ NextPos(duplicates, gi, fi).g > Len(duplicates)
         /\ RemovedPaths = AllVictims
         /\ log = deleted_files
    /\ connected = "no" => ~mailCalled /\ log # NoLog
    /\ mailCalled => connected = "yes"

C6_Witness ==
    /\ pc = "sleep"
    /\ connected = "no"
    /\ deleted_files # <<>>
    /\ log = deleted_files

\* C7: a pass that follows a pass whose delete_files returned, with no change
\* to the tree in between, finds only groups of size 1 and removes nothing.
C7_SecondPassRemovesNothing ==
    prevClean =>
      /\ deleted_files = <<>>
      /\ tree = tree0
      /\ \A g \in 1..Len(duplicates) : Len(duplicates[g].files) = 1

C7_Witness ==
    /\ prevClean
    /\ prevRemoved > 0
    /\ pc = "log"
    /\ duplicates # <<>>

\* C8: in a completed run total_scanned is the number of files hashed, the
\* sum of the group sizes; total_duplicates is the number of files removed,
\* total_scanned minus the number of distinct fingerprints; two files of one
\* content and a third of another give 3 and 1.
C8_Totals ==
    PassDone =>
      /\ total_scanned = SumSizes(duplicates)
      /\ total_scanned = Cardinality(Listed(tree0))
      /\ total_duplicates = Cardinality(RemovedPaths)
      /\ total_duplicates =
           total_scanned - Cardinality({Content(tree0, p) : p \in Listed(tree0)})
      /\ (/\ Cardinality(Listed(tree0)) = 3
          /\ Cardinality({Content(tree0, p) : p \in Listed(tree0)}) = 2)
         => total_scanned = 3 /\ total_duplicates = 1

C8_Witness ==
    /\ PassDone
    /\ pc = "sleep"
    /\ total_scanned = 3
    /\ total_duplicates = 1
    /\ \A p \in Listed(tree0) : tree0[p].kind = "file"

\* C9: the survivors do not depend on the order of the listing: every other
\* order of the same tree gives groups with the same first members.
C9_SurvivorIndependentOfOrder ==
    pc = "delete" =>
      \A order \in Orders(Listed(tree0)) :
        Survivors(find_duplicates(tree0, order, {}).dups) = Survivors(duplicates)

\* C10: no content is lost: every content readable in the tree when
\* delete_files was called is readable under some name after it returned.
C10_NoContentLost ==
    PassDone =>
      \A p \in Listed(tree0) :
        Readable(tree0, p) =>
          \E q \in Listed(tree) : Readable(tree, q) /\ Content(tree, q) = Content(tree0, p)

====
